---- MODULE Spec2Model ----
(***************************************************************************)
(* Model of src/frontend/src-tauri/src/audio/permissions.rs: the audio     *)
(* permission functions (check / request / ensure for the microphone and   *)
(* for Audio Capture), the Core Audio tap trigger and the run-once startup *)
(* initializer with its background thread.                                 *)
(*                                                                         *)
(* Caller threads invoke the public functions; every call leaves a record  *)
(* (op, trace of the operations it performed on its callees, return value) *)
(* that stays until the thread starts its next call.  The environment is   *)
(* the presence of a default input device, the outcome of the external     *)
(* collaborators (process spawn, capture engine, stream-open probe).       *)
(***************************************************************************)
EXTENDS Naturals, Sequences, FiniteSets

\* ---------------------------------------------------------------- bounds
NumThreads == 2
MaxCalls == 2

Threads == 1..NumThreads

VARIABLES
    platform,        \* "macos" | "other": the cfg(target_os) the build selected
    inputDevice,     \* environment: cpal's default host has a default input device
    once,            \* INIT_MICROPHONE_PERMISSION: "incomplete" | "running" | "complete"
    pc,              \* pc[t]: position of caller thread t
    op,              \* op[t]: the function thread t is calling / has last called
    trace,           \* trace[t]: operations the call performed, with their results
    ret,             \* ret[t]: value the call returned
    task,            \* the background thread spawned by init_microphone_permission
    tasksScheduled,  \* number of std::thread::spawn calls performed
    callsStarted,    \* number of calls started (bounds the exploration)
    promptsSinceDenied  \* requests issued by ensure / the task since the device was last present

vars == <<platform, inputDevice, once, pc, op, trace, ret, task, tasksScheduled,
          callsStarted, promptsSinceDenied>>

\* ------------------------------------------------------------ values
Ok == [kind |-> "ok"]
Err(m) == [kind |-> "err", msg |-> m]
Bool(b) == [kind |-> "bool", val |-> b]
Unit == [kind |-> "unit"]
None == [kind |-> "none"]
Pending == [kind |-> "pending"]

\* One operation a call performed on a callee, with the callee's result.
Entry(o, r) == [op |-> o, res |-> r]

\* Error messages are sequences of characters.
MsgPermissionDenied == <<"P","e","r","m","i","s","s","i","o","n"," ","d","e","n","i","e","d">>
MsgAudioUpper == <<"A","U","D","I","O"," ","t","a","p">>
MsgDeviceBusy == <<"d","e","v","i","c","e"," ","b","u","s","y">>
MsgNoSuchFile == <<"N","o"," ","s","u","c","h"," ","f","i","l","e">>
MsgStreamFailed == <<"s","t","r","e","a","m"," ","f","a","i","l","e","d">>

UpperChars == <<"A","B","C","D","E","F","G","H","I","J","K","L","M",
                "N","O","P","Q","R","S","T","U","V","W","X","Y","Z">>
LowerChars == <<"a","b","c","d","e","f","g","h","i","j","k","l","m",
                "n","o","p","q","r","s","t","u","v","w","x","y","z">>

LowerChar(c) ==
    IF \E i \in DOMAIN UpperChars : UpperChars[i] = c
        THEN LowerChars[CHOOSE i \in DOMAIN UpperChars : UpperChars[i] = c]
        ELSE c

\* str::to_lowercase
ToLowercase(s) == [i \in 1..Len(s) |-> LowerChar(s[i])]

\* str::contains
Contains(s, pat) ==
    \E i \in 0..Len(s) :
        /\ i + Len(pat) <= Len(s)
        /\ SubSeq(s, i + 1, i + Len(pat)) = pat

PatPermission == <<"p","e","r","m","i","s","s","i","o","n">>
PatAudio == <<"a","u","d","i","o">>

\* ------------------------------------------------ external collaborators
\* Results CoreAudioCapture::new() and capture.stream() can produce.
CaptureResults ==
    {Ok} \cup {Err(m) : m \in {MsgPermissionDenied, MsgAudioUpper, MsgDeviceBusy}}

\* Results of Command::new("open").spawn().
SpawnResults == {Ok, Err(MsgNoSuchFile)}

\* Results of crate::audio::trigger_audio_permission().
TriggerAudioResults == {Ok, Err(MsgStreamFailed)}

\* ------------------------------------------------------ pure functions
\* Variant: on macOS the check reports the permission as missing.
CheckScreenRecordingPermissionDenied(p) == p # "macos"

CheckScreenRecordingPermission(p) == TRUE

\* Variant: the device is probed on every platform.
CheckMicrophonePermissionProbesEverywhere(p, device) == device

CheckMicrophonePermission(p, device) ==
    IF p = "macos" THEN device ELSE TRUE

FailedToOpenPrefix ==
    <<"F","a","i","l","e","d"," ","t","o"," ","o","p","e","n"," ",
      "S","y","s","t","e","m"," ","S","e","t","t","i","n","g","s",":"," ">>

\* Variant: the error of the spawn is logged and dropped.
RequestScreenRecordingPermissionSwallows(p, spawnRes) == Ok

RequestScreenRecordingPermission(p, spawnRes) ==
    IF p = "macos"
        THEN IF spawnRes.kind = "ok"
                THEN Ok
                ELSE Err(FailedToOpenPrefix \o spawnRes.msg)
        ELSE Ok

\* Variant: the message is matched without to_lowercase().
IsPermissionErrorCaseSensitive(e) ==
    Contains(e, PatPermission) \/ Contains(e, PatAudio)

\* error_msg.contains("permission") || error_msg.contains("audio")
IsPermissionError(e) ==
    LET error_msg == ToLowercase(e)
    IN  Contains(error_msg, PatPermission) \/ Contains(error_msg, PatAudio)

\* the Err arm of capture.stream()
ClassifyStreamError(e) ==
    IF IsPermissionError(e.msg) THEN Ok ELSE e

\* the Err arm of CoreAudioCapture::new()
ClassifyNewError(e) ==
    IF IsPermissionError(e.msg) THEN Ok ELSE e

TriggerSystemAudioPermission(p, newRes, streamRes) ==
    IF p = "macos"
        THEN IF newRes.kind = "ok"
                THEN IF streamRes.kind = "ok"
                        THEN Ok
                        ELSE ClassifyStreamError(streamRes)
                ELSE ClassifyNewError(newRes)
        ELSE Ok

\* -------------------------------------------------------------- Init
NoTask == [pc |-> "none", trace |-> <<>>]

Init ==
    /\ platform \in {"macos", "other"}
    /\ inputDevice \in BOOLEAN
    /\ once = "incomplete"
    /\ pc = [t \in Threads |-> "idle"]
    /\ op = [t \in Threads |-> "none"]
    /\ trace = [t \in Threads |-> <<>>]
    /\ ret = [t \in Threads |-> None]
    /\ task = NoTask
    /\ tasksScheduled = 0
    /\ callsStarted = 0
    /\ promptsSinceDenied = 0

\* ------------------------------------------------------------ helpers
CanCall(t) == pc[t] \in {"idle", "done"} /\ callsStarted < MaxCalls

\* Thread t has returned from a call of o and has not called since.
Done(t, o) == pc[t] = "done" /\ op[t] = o

\* The whole call happens in one step: it performs tr and returns r.
Whole(t, o, tr, r) ==
    /\ CanCall(t)
    /\ callsStarted' = callsStarted + 1
    /\ pc' = [pc EXCEPT ![t] = "done"]
    /\ op' = [op EXCEPT ![t] = o]
    /\ trace' = [trace EXCEPT ![t] = tr]
    /\ ret' = [ret EXCEPT ![t] = r]

\* The call starts, performs tr and continues at label l.
Begin(t, o, tr, l) ==
    /\ CanCall(t)
    /\ callsStarted' = callsStarted + 1
    /\ pc' = [pc EXCEPT ![t] = l]
    /\ op' = [op EXCEPT ![t] = o]
    /\ trace' = [trace EXCEPT ![t] = tr]
    /\ ret' = [ret EXCEPT ![t] = None]

\* The running call continues at label l.
Goto(t, l) ==
    /\ pc' = [pc EXCEPT ![t] = l]
    /\ UNCHANGED <<op, ret, callsStarted>>

\* The running call returns r.
Return(t, r) ==
    /\ pc' = [pc EXCEPT ![t] = "done"]
    /\ ret' = [ret EXCEPT ![t] = r]
    /\ UNCHANGED <<op, callsStarted>>

\* The pending operation at the end of tr completes with result r.
Settle(tr, r) == [tr EXCEPT ![Len(tr)].res = r]

\* A microphone consent request is issued by ensure or by the startup task.
NoteMicRequest == promptsSinceDenied' = promptsSinceDenied + 1

\* The stream-open probe returns; the OS dialog may have granted access.
DialogOutcome(granted) ==
    /\ inputDevice' = (inputDevice \/ granted)
    /\ promptsSinceDenied' = IF inputDevice' THEN 0 ELSE promptsSinceDenied

\* What the step leaves alone.
SameEnv == UNCHANGED <<platform, inputDevice, promptsSinceDenied>>
SameInit == UNCHANGED <<once, task, tasksScheduled>>
SameCallers == UNCHANGED <<pc, op, trace, ret, callsStarted>>

\* ------------------------------------------------------- environment
\* The user changes the privacy setting or (un)plugs the input device.
EnvChange ==
    /\ inputDevice' = ~inputDevice
    /\ promptsSinceDenied' = IF inputDevice' THEN 0 ELSE promptsSinceDenied
    /\ UNCHANGED platform
    /\ SameInit
    /\ SameCallers

\* ------------------------------------------------- Audio Capture calls
\* Variant: the check opens System Settings itself.
CheckScreenRecordingOpensSettings(t) ==
    /\ \E s \in SpawnResults :
           Whole(t, "check_screen_recording",
                 IF platform = "macos" THEN <<Entry("spawn", s)>> ELSE <<>>,
                 Bool(CheckScreenRecordingPermission(platform)))
    /\ SameEnv
    /\ SameInit

\* check_screen_recording_permission (and its command)
CheckScreenRecording(t) ==
    /\ Whole(t, "check_screen_recording", <<>>,
             Bool(CheckScreenRecordingPermission(platform)))
    /\ SameEnv
    /\ SameInit

\* The operation request_screen_recording_permission performs: the spawn.
RequestTrace(s) ==
    IF platform = "macos" THEN <<Entry("spawn", s)>> ELSE <<>>

\* request_screen_recording_permission (and its command)
RequestScreenRecording(t) ==
    /\ \E s \in SpawnResults :
           Whole(t, "request_screen_recording", RequestTrace(s),
                 RequestScreenRecordingPermission(platform, s))
    /\ SameEnv
    /\ SameInit

\* ensure_screen_recording_permission
EnsureScreenRecording(t) ==
    /\ IF CheckScreenRecordingPermission(platform)
          THEN Whole(t, "ensure_screen_recording",
                     <<Entry("check", Bool(TRUE))>>, Bool(TRUE))
          ELSE \E s \in SpawnResults :
                  Whole(t, "ensure_screen_recording",
                        <<Entry("check", Bool(FALSE))>> \o RequestTrace(s) \o
                        <<Entry("request",
                                RequestScreenRecordingPermission(platform, s))>>,
                        Bool(FALSE))
    /\ SameEnv
    /\ SameInit

\* The operations trigger_system_audio_permission performs on the capture engine.
TriggerTrace(n, s) ==
    IF platform = "macos"
        THEN IF n.kind = "ok"
                THEN <<Entry("new", n), Entry("stream", s)>>
                ELSE <<Entry("new", n)>>
        ELSE <<>>

\* trigger_system_audio_permission (and its command)
TriggerSystemAudio(t) ==
    /\ \E n \in CaptureResults, s \in CaptureResults :
           /\ n.kind = "err" => s = Ok   \* stream() is not called: s is not used
           /\ Whole(t, "trigger_system_audio", TriggerTrace(n, s),
                    TriggerSystemAudioPermission(platform, n, s))
    /\ SameEnv
    /\ SameInit

\* --------------------------------------------------- microphone calls
\* Variant: the result of the thread's previous check is kept and returned.
CheckMicrophoneCached(t) ==
    /\ IF Done(t, "check_microphone")
          THEN Whole(t, "check_microphone", trace[t], ret[t])
          ELSE Whole(t, "check_microphone",
                     IF platform = "macos"
                         THEN <<Entry("default_input_device", Bool(inputDevice))>>
                         ELSE <<>>,
                     Bool(CheckMicrophonePermission(platform, inputDevice)))
    /\ SameEnv
    /\ SameInit

\* check_microphone_permission (and its command)
CheckMicrophone(t) ==
    /\ Whole(t, "check_microphone",
             IF platform = "macos"
                 THEN <<Entry("default_input_device", Bool(inputDevice))>>
                 ELSE <<>>,
             Bool(CheckMicrophonePermission(platform, inputDevice)))
    /\ SameEnv
    /\ SameInit

\* request_microphone_permission (and its command): the call enters
\* trigger_audio_permission, which returns when the OS call returns.
RequestMicrophone(t) ==
    /\ IF platform = "macos"
          THEN Begin(t, "request_microphone", <<Entry("trigger", Pending)>>,
                     "req_wait")
          ELSE Whole(t, "request_microphone", <<>>, Ok)
    /\ SameEnv
    /\ SameInit

RequestMicrophoneEnd(t) ==
    /\ pc[t] = "req_wait"
    /\ \E r \in TriggerAudioResults, g \in BOOLEAN :
        /\ trace' = [trace EXCEPT ![t] = Settle(@, r)]
        /\ Return(t, r)
        /\ DialogOutcome(g)
    /\ UNCHANGED platform
    /\ SameInit

\* Variant: the early return on a granted permission is missing.
EnsureMicCheckNoEarlyReturn(t) ==
    /\ Begin(t, "ensure_microphone",
             <<Entry("check", Bool(CheckMicrophonePermission(platform, inputDevice)))>>,
             "ens_request")
    /\ SameEnv
    /\ SameInit

\* ensure_microphone_permission (and its command): the initial check
EnsureMicCheck(t) ==
    /\ IF platform = "macos"
          THEN IF CheckMicrophonePermission(platform, inputDevice)
                  THEN Whole(t, "ensure_microphone",
                             <<Entry("check", Bool(TRUE))>>, Bool(TRUE))
                  ELSE Begin(t, "ensure_microphone",
                             <<Entry("check", Bool(FALSE))>>, "ens_request")
          ELSE Whole(t, "ensure_microphone", <<>>, Bool(TRUE))
    /\ SameEnv
    /\ SameInit

\* ... request_microphone_permission is entered
EnsureMicRequest(t) ==
    /\ pc[t] = "ens_request"
    /\ trace' = [trace EXCEPT ![t] = Append(@, Entry("request", Pending))]
    /\ Goto(t, "ens_wait")
    /\ NoteMicRequest
    /\ UNCHANGED <<platform, inputDevice>>
    /\ SameInit

\* Variant: the error of the request is ignored and the call checks again.
EnsureMicRequestEndIgnoresError(t) ==
    /\ pc[t] = "ens_wait"
    /\ \E r \in TriggerAudioResults, g \in BOOLEAN :
        /\ trace' = [trace EXCEPT ![t] = Settle(@, r)]
        /\ Goto(t, "ens_recheck")
        /\ DialogOutcome(g)
    /\ UNCHANGED platform
    /\ SameInit

\* ... and returns: an error ends the call with false
EnsureMicRequestEnd(t) ==
    /\ pc[t] = "ens_wait"
    /\ \E r \in TriggerAudioResults, g \in BOOLEAN :
        /\ trace' = [trace EXCEPT ![t] = Settle(@, r)]
        /\ IF r.kind = "err"
              THEN Return(t, Bool(FALSE))
              ELSE Goto(t, "ens_recheck")
        /\ DialogOutcome(g)
    /\ UNCHANGED platform
    /\ SameInit

\* Variant: the call checks again but returns false, as "just requested".
EnsureMicRecheckReturnsFalse(t) ==
    /\ pc[t] = "ens_recheck"
    /\ LET granted == CheckMicrophonePermission(platform, inputDevice)
       IN  /\ trace' = [trace EXCEPT ![t] = Append(@, Entry("check", Bool(granted)))]
           /\ Return(t, Bool(FALSE))
    /\ SameEnv
    /\ SameInit

\* Variant: a check that still fails sends the call back to the request.
EnsureMicRecheckRetries(t) ==
    /\ pc[t] = "ens_recheck"
    /\ LET granted == CheckMicrophonePermission(platform, inputDevice)
       IN  /\ trace' = [trace EXCEPT ![t] = Append(@, Entry("check", Bool(granted)))]
           /\ IF granted
                 THEN Return(t, Bool(TRUE))
                 ELSE Goto(t, "ens_request")
    /\ SameEnv
    /\ SameInit

\* ... the check after the request, whose result is returned
EnsureMicRecheck(t) ==
    /\ pc[t] = "ens_recheck"
    /\ LET granted == CheckMicrophonePermission(platform, inputDevice)
       IN  /\ trace' = [trace EXCEPT ![t] = Append(@, Entry("check", Bool(granted)))]
           /\ Return(t, Bool(granted))
    /\ SameEnv
    /\ SameInit

\* ---------------------------------------------- startup initializer
\* init_microphone_permission is entered
InitCall(t) ==
    /\ IF platform = "macos"
          THEN Begin(t, "init_microphone", <<>>, "init_call_once")
          ELSE Whole(t, "init_microphone", <<>>, Unit)
    /\ SameEnv
    /\ SameInit

\* Variant: the closure runs on every call, without the Once.
InitCallOnceUnguarded(t) ==
    /\ pc[t] = "init_call_once"
    /\ once' = "running"
    /\ Goto(t, "init_closure")
    /\ UNCHANGED <<trace, task, tasksScheduled>>
    /\ SameEnv

\* Once::call_once: a completed Once returns at once, an incomplete one is
\* claimed by this thread, a running one makes the thread wait.
InitCallOnce(t) ==
    /\ pc[t] = "init_call_once"
    /\ once # "running"
    /\ IF once = "complete"
          THEN /\ Return(t, Unit)
               /\ UNCHANGED once
          ELSE /\ once' = "running"
               /\ Goto(t, "init_closure")
    /\ UNCHANGED <<trace, task, tasksScheduled>>
    /\ SameEnv

\* the closure: std::thread::spawn of the background thread
InitSpawn(t) ==
    /\ pc[t] = "init_closure"
    /\ trace' = [trace EXCEPT ![t] = Append(@, Entry("thread_spawn", Ok))]
    /\ Goto(t, "init_closure_end")
    /\ task' = [pc |-> "sleeping", trace |-> <<>>]
    /\ tasksScheduled' = tasksScheduled + 1
    /\ UNCHANGED once
    /\ SameEnv

\* Variant: the call joins the background thread before it returns.
InitFinishJoins(t) ==
    /\ pc[t] = "init_closure_end"
    /\ task.pc = "done"
    /\ once' = "complete"
    /\ Return(t, Unit)
    /\ UNCHANGED <<trace, task, tasksScheduled>>
    /\ SameEnv

\* Variant: the flag is cleared again when the closure has returned.
InitFinishResets(t) ==
    /\ pc[t] = "init_closure_end"
    /\ once' = "incomplete"
    /\ Return(t, Unit)
    /\ UNCHANGED <<trace, task, tasksScheduled>>
    /\ SameEnv

\* the closure has returned: the Once is complete and the call returns
InitFinish(t) ==
    /\ pc[t] = "init_closure_end"
    /\ once' = "complete"
    /\ Return(t, Unit)
    /\ UNCHANGED <<trace, task, tasksScheduled>>
    /\ SameEnv

\* ------------------------------------------------ background thread
TaskDo(e, l) == task' = [pc |-> l, trace |-> Append(task.trace, e)]

\* Variant: the thread checks at once, without the delay.
TaskWakeSkipsDelay ==
    /\ task.pc = "sleeping"
    /\ LET granted == CheckMicrophonePermission(platform, inputDevice)
       IN  TaskDo(Entry("check", Bool(granted)),
                  IF granted THEN "done" ELSE "request")
    /\ UNCHANGED <<once, tasksScheduled>>
    /\ SameEnv
    /\ SameCallers

\* thread::sleep(500ms) elapses
TaskWake ==
    /\ task.pc = "sleeping"
    /\ TaskDo(Entry("sleep", Unit), "check")
    /\ UNCHANGED <<once, tasksScheduled>>
    /\ SameEnv
    /\ SameCallers

\* Variant: the thread requests whatever the check reported.
TaskCheckAlwaysRequests ==
    /\ task.pc = "check"
    /\ LET granted == CheckMicrophonePermission(platform, inputDevice)
       IN  TaskDo(Entry("check", Bool(granted)), "request")
    /\ UNCHANGED <<once, tasksScheduled>>
    /\ SameEnv
    /\ SameCallers

\* if !check_microphone_permission()
TaskCheck ==
    /\ task.pc = "check"
    /\ LET granted == CheckMicrophonePermission(platform, inputDevice)
       IN  TaskDo(Entry("check", Bool(granted)),
                  IF granted THEN "done" ELSE "request")
    /\ UNCHANGED <<once, tasksScheduled>>
    /\ SameEnv
    /\ SameCallers

\* let _ = request_microphone_permission(): the request is entered
TaskRequest ==
    /\ task.pc = "request"
    /\ TaskDo(Entry("request", Pending), "req_wait")
    /\ NoteMicRequest
    /\ UNCHANGED <<platform, inputDevice, once, tasksScheduled>>
    /\ SameCallers

\* Variant: a failed request is tried again.
TaskRequestEndRetries ==
    /\ task.pc = "req_wait"
    /\ \E r \in TriggerAudioResults, g \in BOOLEAN :
        /\ task' = [pc |-> IF r.kind = "err" THEN "request" ELSE "done",
                    trace |-> Settle(task.trace, r)]
        /\ DialogOutcome(g)
    /\ UNCHANGED <<platform, once, tasksScheduled>>
    /\ SameCallers

\* Variant: the thread runs ensure_microphone_permission, which checks again
\* after a successful request.
TaskRequestEndRechecks ==
    /\ task.pc = "req_wait"
    /\ \E r \in TriggerAudioResults, g \in BOOLEAN :
        /\ task' = [pc |-> "done",
                    trace |-> IF r.kind = "ok"
                                 THEN Append(Settle(task.trace, r),
                                             Entry("check", Bool(inputDevice \/ g)))
                                 ELSE Settle(task.trace, r)]
        /\ DialogOutcome(g)
    /\ UNCHANGED <<platform, once, tasksScheduled>>
    /\ SameCallers

\* ... and returns; its result is dropped and the thread ends
TaskRequestEnd ==
    /\ task.pc = "req_wait"
    /\ \E r \in TriggerAudioResults, g \in BOOLEAN :
        /\ task' = [pc |-> "done", trace |-> Settle(task.trace, r)]
        /\ DialogOutcome(g)
    /\ UNCHANGED <<platform, once, tasksScheduled>>
    /\ SameCallers

\* ------------------------------------------------------ specification
Next ==
    \/ EnvChange
    \/ \E t \in Threads : CheckScreenRecording(t)
    \/ \E t \in Threads : RequestScreenRecording(t)
    \/ \E t \in Threads : EnsureScreenRecording(t)
    \/ \E t \in Threads : TriggerSystemAudio(t)
    \/ \E t \in Threads : CheckMicrophone(t)
    \/ \E t \in Threads : RequestMicrophone(t)
    \/ \E t \in Threads : RequestMicrophoneEnd(t)
    \/ \E t \in Threads : EnsureMicCheck(t)
    \/ \E t \in Threads : EnsureMicRequest(t)
    \/ \E t \in Threads : EnsureMicRequestEnd(t)
    \/ \E t \in Threads : EnsureMicRecheck(t)
    \/ \E t \in Threads : InitCall(t)
    \/ \E t \in Threads : InitCallOnce(t)
    \/ \E t \in Threads : InitSpawn(t)
    \/ \E t \in Threads : InitFinish(t)
    \/ TaskWake
    \/ TaskCheck
    \/ TaskRequest
    \/ TaskRequestEnd

Spec == Init /\ [][Next]_vars

\* The scheduler runs every thread that is inside init_microphone_permission;
\* nothing makes the OS dialog of a pending request return.
InitStep(t) == InitCallOnce(t) \/ InitSpawn(t) \/ InitFinish(t)

LiveSpec == Spec /\ \A t \in Threads : WF_vars(InitStep(t))

\* ------------------------------------------------------------ properties
EnsureOps == {"ensure_microphone", "ensure_screen_recording"}

\* The positions of tr at which operation o was performed.
At(tr, o) == {i \in DOMAIN tr : tr[i].op = o}

CheckYes == Entry("check", Bool(TRUE))
CheckNo == Entry("check", Bool(FALSE))

\* C1: on macOS at most one background task is ever scheduled, and once any
\* call of init_microphone_permission has claimed or passed the Once and
\* returned, exactly one has been scheduled.
C1_ExactlyOneTask ==
    platform = "macos" =>
        /\ tasksScheduled <= 1
        /\ (\E t \in Threads : Done(t, "init_microphone")) => tasksScheduled = 1

\* Every thread has called init_microphone_permission and returned.
C1_Witness ==
    /\ platform = "macos"
    /\ \A t \in Threads : Done(t, "init_microphone")
    /\ tasksScheduled = 1

\* C2: a call of ensure (either capability) whose initial check reported
\* Granted has returned true and performed nothing but that check: no
\* request, no spawn, no probe, no second check.
C2_GrantedIsFree ==
    \A t \in Threads :
        (op[t] \in EnsureOps /\ trace[t] # <<>> /\ trace[t][1] = CheckYes) =>
            /\ pc[t] = "done"
            /\ ret[t] = Bool(TRUE)
            /\ trace[t] = <<CheckYes>>

\* Both ensure functions have returned from a granted initial check.
C2_Witness ==
    /\ platform = "macos"
    /\ \E t, u \in Threads :
        /\ Done(t, "ensure_microphone") /\ trace[t] = <<CheckYes>>
        /\ Done(u, "ensure_screen_recording") /\ trace[u] = <<CheckYes>>

\* C3 as stated: while the device stays absent, ensure calls and the startup
\* task together issue the microphone request at most once.
C3_NoDuplicatePrompt == promptsSinceDenied <= 1

\* C3 as amended: each ensure_microphone_permission call and the startup
\* task issue the microphone request at most once, and only right after a
\* check of their own that reported NotGranted.
RequestFollowsDenial(tr) ==
    /\ Cardinality(At(tr, "request")) <= 1
    /\ \A i \in At(tr, "request") : i > 1 /\ tr[i - 1] = CheckNo

C3_OneRequestPerCall ==
    /\ \A t \in Threads :
           op[t] = "ensure_microphone" => RequestFollowsDenial(trace[t])
    /\ RequestFollowsDenial(task.trace)

\* Two requests were issued while the device stayed absent: one by the
\* startup task and one by a call of ensure_microphone_permission.
C3_Witness ==
    /\ promptsSinceDenied = 2
    /\ At(task.trace, "request") # {}
    /\ \E t \in Threads :
           op[t] = "ensure_microphone" /\ At(trace[t], "request") # {}

\* The sequences of operations ensure_microphone_permission performs.
EnsureMicShaped(tr) ==
    \/ tr = <<CheckYes>>
    \/ \E e \in TriggerAudioResults :
           e.kind = "err" /\ tr = <<CheckNo, Entry("request", e)>>
    \/ \E b \in BOOLEAN :
           tr = <<CheckNo, Entry("request", Ok), Entry("check", Bool(b))>>

\* C4 as stated: after its delay the finished background task has
\* performed the sequence of operations of ensure_microphone_permission.
C4_TaskRunsEnsure ==
    task.pc = "done" =>
        /\ task.trace # <<>>
        /\ Head(task.trace).op = "sleep"
        /\ EnsureMicShaped(Tail(task.trace))

\* C4 as amended: after its delay the task performs one check and, if it
\* reported NotGranted, one request whose result is dropped; it performs
\* no check after the request.
C4_TaskChecksThenRequests ==
    task.pc = "done" =>
        \/ task.trace = <<Entry("sleep", Unit), CheckYes>>
        \/ \E r \in TriggerAudioResults :
               task.trace = <<Entry("sleep", Unit), CheckNo, Entry("request", r)>>

\* The task has ended after a request that succeeded.
C4_Witness ==
    /\ task.pc = "done"
    /\ Len(task.trace) = 3
    /\ task.trace[3] = Entry("request", Ok)

C7_FailedRequestReturnsFalse ==
    \A t \in Threads :
        op[t] \in EnsureOps =>
            \A i \in At(trace[t], "request") :
                trace[t][i].res.kind = "err" =>
                    /\ pc[t] = "done"
                    /\ ret[t] = Bool(FALSE)
                    /\ i = Len(trace[t])
                    /\ At(trace[t], "request") = {i}

\* A call of ensure_microphone_permission has returned after a failed request.
C7_Witness ==
    \E t \in Threads :
        /\ Done(t, "ensure_microphone")
        /\ Len(trace[t]) = 2
        /\ trace[t][2].res.kind = "err"

\* C8: every call of init_microphone_permission returns, also when the
\* background task never gets past its delay, its check or its request.
C8_InitReturns ==
    \A t \in Threads :
        (op[t] = "init_microphone" /\ pc[t] # "done") ~> (pc[t] = "done")

\* The call that spawned the task has returned while the task's request is
\* still pending.
C8_Witness ==
    \E t \in Threads :
        /\ Done(t, "init_microphone")
        /\ trace[t] = <<Entry("thread_spawn", Ok)>>
        /\ task.pc = "req_wait"

\* C9: the Once starts incomplete, only moves forward (incomplete, running,
\* complete) and stays complete; a call of init_microphone_permission that
\* finds it complete returns having scheduled nothing and performed no
\* check or request.
C9_Step ==
    /\ once = "complete" => once' = "complete"
    /\ once = "running" => once' \in {"running", "complete"}
    /\ \A t \in Threads :
           (pc[t] = "init_call_once" /\ once = "complete" /\ pc'[t] # pc[t]) =>
               /\ pc'[t] = "done"
               /\ trace'[t] = <<>>
               /\ UNCHANGED <<task, tasksScheduled, inputDevice, promptsSinceDenied>>

C9_RunOnce == (once = "incomplete") /\ [][C9_Step]_vars

\* A call that found the Once complete has returned.
C9_Witness ==
    /\ once = "complete"
    /\ tasksScheduled = 1
    /\ \E t \in Threads : Done(t, "init_microphone") /\ trace[t] = <<>>
    /\ platform = "macos"

\* The messages that contain "permission" or "audio" in some letter case.
ConsentShaped == {MsgPermissionDenied, MsgAudioUpper}

\* The failure a call of trigger_system_audio_permission met, if any.
Failure(tr) == {tr[i].res : i \in {j \in DOMAIN tr : tr[j].res.kind = "err"}}

\* C10: trigger_system_audio_permission returns Ok when construction and
\* stream-open succeed and when the failure of either mentions permission
\* or audio in any letter case; it returns any other failure unchanged.
C10_Classification ==
    \A t \in Threads :
        (Done(t, "trigger_system_audio") /\ platform = "macos") =>
            /\ Failure(trace[t]) = {} => ret[t] = Ok
            /\ \A f \in Failure(trace[t]) :
                   IF f.msg \in ConsentShaped THEN ret[t] = Ok ELSE ret[t] = f

\* One call met a stream-open failure that mentions AUDIO and returned Ok,
\* another met "device busy" at construction and returned it.
C10_Witness ==
    \E t, u \in Threads :
        /\ Done(t, "trigger_system_audio")
        /\ trace[t] = <<Entry("new", Ok), Entry("stream", Err(MsgAudioUpper))>>
        /\ ret[t] = Ok
        /\ Done(u, "trigger_system_audio")
        /\ trace[u] = <<Entry("new", Err(MsgDeviceBusy))>>
        /\ ret[u] = Err(MsgDeviceBusy)


\* The operations that reach outside the process: a spawned process, an
\* audio device or capture engine, a consent request, a new thread.
ExternalOps ==
    {"spawn", "new", "stream", "default_input_device", "trigger", "request",
     "thread_spawn"}

\* What each function returns on a build without the permission concept.
StubReturn(o) ==
    IF o \in {"check_screen_recording", "check_microphone",
              "ensure_screen_recording", "ensure_microphone"}
        THEN Bool(TRUE)
        ELSE IF o = "init_microphone" THEN Unit ELSE Ok

\* C11: on the non-macOS build every call returns at once, check and ensure
\* with true and request and trigger with Ok, having touched no process, no
\* device and no thread; init_microphone_permission leaves the Once
\* incomplete and schedules nothing.
C11_StubsSucceed ==
    platform = "other" =>
        /\ \A t \in Threads :
               /\ pc[t] \in {"idle", "done"}
               /\ pc[t] = "done" => ret[t] = StubReturn(op[t])
               /\ \A o \in ExternalOps : At(trace[t], o) = {}
        /\ task = NoTask
        /\ tasksScheduled = 0
        /\ once = "incomplete"

\* On the non-macOS build, with no input device, a check of the microphone
\* and a call of init_microphone_permission have returned.
C11_Witness ==
    /\ platform = "other"
    /\ ~inputDevice
    /\ \E t, u \in Threads :
           Done(t, "check_microphone") /\ Done(u, "init_microphone")

\* C12: a call of ensure, for either capability, has invoked request at
\* most once, whatever its checks and its request returned.
C12_AtMostOneRequest ==
    \A t \in Threads :
        op[t] \in EnsureOps => Cardinality(At(trace[t], "request")) <= 1

\* A call of ensure_microphone_permission has returned false although its
\* request succeeded: the permission is still missing and it did not retry.
C12_Witness ==
    \E t \in Threads :
        /\ Done(t, "ensure_microphone")
        /\ trace[t] = <<CheckNo, Entry("request", Ok), CheckNo>>
        /\ ret[t] = Bool(FALSE)

\* C13: ensure_microphone_permission returns true when its initial check
\* reported the permission granted, and false whenever the call has
\* requested the permission.
C13_FalseWhenJustRequested ==
    \A t \in Threads :
        Done(t, "ensure_microphone") =>
            /\ (trace[t] # <<>> /\ trace[t][1] = CheckYes) => ret[t] = Bool(TRUE)
            /\ At(trace[t], "request") # {} => ret[t] = Bool(FALSE)


CheckOps == {"check_screen_recording", "check_microphone"}

\* The record of thread t's current or last call.
Rec(t) == <<pc[t], op[t], trace[t], ret[t]>>

RecNext(t) == <<pc'[t], op'[t], trace'[t], ret'[t]>>

\* What a call of check may perform: nothing, or the query of the default
\* input device.
CheckTraces ==
    {<<>>} \cup {<<Entry("default_input_device", Bool(b))>> : b \in BOOLEAN}

\* C14: a call of check, for either capability, performs no request, no
\* spawn and no capture-engine or stream-open operation, and the step that
\* makes it leaves the Once, the background thread and the task count as
\* they were; check_screen_recording_permission returns true in every state.
C14_Step ==
    \A t \in Threads :
        (op'[t] \in CheckOps /\ Rec(t) # RecNext(t)) =>
            UNCHANGED <<once, task, tasksScheduled, promptsSinceDenied, inputDevice>>

C14_Calls ==
    \A t \in Threads :
        op[t] \in CheckOps =>
            /\ pc[t] = "done"
            /\ trace[t] \in CheckTraces
            /\ op[t] = "check_screen_recording" =>
                   ret[t] = Bool(TRUE) /\ trace[t] = <<>>

FreshNow(t) ==
    op'[t] = "check_microphone" =>
        /\ ret'[t] = Bool(inputDevice)
        /\ trace'[t] = <<Entry("default_input_device", Bool(inputDevice))>>

C15_Step ==
    (platform = "macos" /\ callsStarted' # callsStarted) =>
        /\ \A t \in Threads : Rec(t) # RecNext(t) => FreshNow(t)
        /\ (\A t \in Threads : Rec(t) = RecNext(t)) =>
               \E t \in Threads : pc'[t] = "done" /\ FreshNow(t)

C15_NeverCached == [][C15_Step]_vars

\* Two checks of the microphone have returned different results: the
\* device changed between them.
C15_Witness ==
    /\ platform = "macos"
    /\ \E t, u \in Threads :
           /\ Done(t, "check_microphone") /\ ret[t] = Bool(TRUE)
           /\ Done(u, "check_microphone") /\ ret[u] = Bool(FALSE)

\* C16 (macOS): request_screen_recording_permission performs the spawn and
\* nothing else (it does not wait for the process), returns an error iff
\* the spawn failed, and Ok when it succeeded.
C16_ErrorIffSpawnFails ==
    \A t \in Threads :
        (Done(t, "request_screen_recording") /\ platform = "macos") =>
            /\ Len(trace[t]) = 1
            /\ trace[t][1].op = "spawn"
            /\ trace[t][1].res.kind = "ok" => ret[t] = Ok
            /\ trace[t][1].res.kind = "err" => ret[t].kind = "err"

\* One request has returned Ok after a spawn, another an error after a
\* failed spawn.
C16_Witness ==
    /\ platform = "macos"
    /\ \E t, u \in Threads :
           /\ Done(t, "request_screen_recording") /\ ret[t] = Ok
           /\ Done(u, "request_screen_recording") /\ ret[u].kind = "err"


\* The request of the background thread has failed.
TaskRequestFailed ==
    \E i \in At(task.trace, "request") : task.trace[i].res.kind = "err"

\* C17: when the request of the background thread fails, the thread ends;
\* the step in which it fails changes no caller's record, and from then on
\* the thread does nothing more, the Once is never incomplete again and no
\* further thread is spawned (exactly one was).
C17_Step ==
    /\ (~TaskRequestFailed /\ TaskRequestFailed') =>
           UNCHANGED <<pc, op, trace, ret, once, tasksScheduled>>
    /\ TaskRequestFailed' =>
           /\ task'.pc = "done"
           /\ tasksScheduled' = 1
           /\ once' # "incomplete"
    /\ TaskRequestFailed => task' = task

C17_FailureSwallowed == [][C17_Step]_vars

\* The request of the task has failed, and afterwards a call of
\* init_microphone_permission has returned without doing anything.
C17_Witness ==
    /\ TaskRequestFailed
    /\ once = "complete"
    /\ \E t \in Threads : Done(t, "init_microphone") /\ trace[t] = <<>>

\* C18: on every platform a call of ensure_screen_recording_permission
\* performs its check only, never a request, and returns true.
C18_AlwaysTrue ==
    \A t \in Threads :
        op[t] = "ensure_screen_recording" =>
            /\ pc[t] = "done"
            /\ ret[t] = Bool(TRUE)
            /\ At(trace[t], "request") = {}
            /\ At(trace[t], "spawn") = {}

\* On macOS every thread has returned from ensure_screen_recording_permission.
C18_Witness ==
    /\ platform = "macos"
    /\ \A t \in Threads : Done(t, "ensure_screen_recording")

\* C19: the background thread performs, in this order, the delay, one
\* check and, only after a check that reported NotGranted, one request;
\* before the delay has elapsed it has performed nothing, and when it has
\* ended it has performed the check.
C19_TaskOrder ==
    LET tr == task.trace
    IN  /\ Len(tr) <= 3
        /\ Len(tr) >= 1 => tr[1] = Entry("sleep", Unit)
        /\ Len(tr) >= 2 => tr[2].op = "check"
        /\ Len(tr) >= 3 => tr[3].op = "request" /\ tr[2] = CheckNo
        /\ task.pc \in {"none", "sleeping"} => tr = <<>>
        /\ task.pc = "done" => Len(tr) >= 2

\* The thread has ended after the delay, a check and a failed request.
C19_Witness ==
    /\ task.pc = "done"
    /\ task.trace = <<Entry("sleep", Unit), CheckNo,
                      Entry("request", Err(MsgStreamFailed))>>

====
